---- MODULE Spec2Model ----
(***************************************************************************)
(* Model of the ledger store of account_book.py (class DBUtil): the        *)
(* categories, transactions, budgets and settings tables, the operations   *)
(* that write them, the queries and the statistics.                        *)
(*                                                                         *)
(* The tables hold what is committed in the database file.  Every          *)
(* operation opens its own connection, works on a private copy and either  *)
(* commits it or rolls it back before it returns, so one action is one     *)
(* whole call.  Amounts are integers (the REAL column holds amounts of     *)
(* money; rounding of binary floating point is not modelled).  Text values *)
(* are strings, and SUBSTR(x, 1, n) / x[:n] is Prefix(x, n).               *)
(***************************************************************************)
EXTENDS Integers, Sequences, FiniteSets, TLC

VARIABLES categories, transactions, budgets, settings, seq, lastOp

vars == <<categories, transactions, budgets, settings, seq, lastOp>>

(***************************************************************************)
(* Bounds of the model and the inputs the operations are called with.      *)
(***************************************************************************)
MaxTx == 2
MaxBudgets == 2
MaxCat == 2

(* add_transaction(amount, type_, category_id, date): the calls made.  A *)
(* date that is not a string (dateIsStr FALSE) is the integer 20250102,  *)
(* which the TEXT column stores as '20250102'.                           *)
TransactionCall(amount, type_, category_id, date, dateIsStr) ==
    [amount |-> amount, type |-> type_, category_id |-> category_id,
     date |-> date, dateIsStr |-> dateIsStr]

TransactionCalls ==
    { TransactionCall(1, "EXPENSE", 1, "2025-01-02", TRUE),
      TransactionCall(2, "EXPENSE", 1, "2025-01-02", TRUE),
      TransactionCall(2, "EXPENSE", 1, "2025-02-01", TRUE),
      TransactionCall(2, "EXPENSE", 2, "2025-01-02", TRUE),
      TransactionCall(1, "INCOME", 1, "2025-01-02", TRUE),
      TransactionCall(1, "INVALID_TYPE", 1, "2025-01-02", TRUE),
      TransactionCall(1, "EXPENSE", 1, "20250102", FALSE) }

(* set_monthly_budget(category_id, month, amount); amountIsNone: amount=None *)
BudgetCall(category_id, month, amount, amountIsNone) ==
    [category_id |-> category_id, month |-> month, amount |-> amount,
     amountIsNone |-> amountIsNone]

BudgetCalls ==
    { BudgetCall(1, "2025-01", 1, FALSE),
      BudgetCall(1, "2025-01", 3, FALSE),
      BudgetCall(1, "2025-02", 3, FALSE),
      BudgetCall(2, "2025-01", 3, FALSE),
      BudgetCall(1, "2025-01", 0, TRUE) }

(* add_custom_category(name, type_) *)
CategoryCalls ==
    { <<"Food", "EXPENSE">>, <<"Rent", "INCOME">>, <<"Food", "INVALID_TYPE">> }

Months == {"2025-01", "2025-02"}

(***************************************************************************)
(* Helpers: text prefix and the SQL aggregates.                            *)
(***************************************************************************)
Prefix(s, n) == IF Len(s) <= n THEN s ELSE SubSeq(s, 1, n)

RECURSIVE SumAmount(_)
SumAmount(S) ==
    IF S = {} THEN 0
    ELSE LET t == CHOOSE x \in S : TRUE
         IN t.amount + SumAmount(S \ {t})

(* CHECK (type IN ('INCOME', 'EXPENSE')) of categories and transactions *)
TypeCheck(type_) == type_ \in {"INCOME", "EXPENSE"}

(***************************************************************************)
(* init_db: the tables are created empty; the default categories are       *)
(* inserted on the connection and the connection is closed without a       *)
(* commit, which discards the inserts.                                     *)
(***************************************************************************)
default_categories ==
    << <<"Food", "EXPENSE">>, <<"Transport", "EXPENSE">>,
       <<"Housing", "EXPENSE">>, <<"Shopping", "EXPENSE">>,
       <<"Entertainment", "EXPENSE">>,
       <<"Salary", "INCOME">>, <<"PartTime", "INCOME">>,
       <<"Gifts", "INCOME">>, <<"Investment", "INCOME">> >>

(* rows of categories as the connection of init_db sees them before close *)
init_db_inserted ==
    { [category_id |-> i, name |-> default_categories[i][1],
       type |-> default_categories[i][2]] : i \in 1..Len(default_categories) }

(* INSERT OR IGNORE INTO settings (user_id) VALUES (1): the row with the *)
(* column defaults, as the connection of init_db sees it before close   *)
settings_inserted ==
    { [setting_id |-> 1, user_id |-> 1, remind_enabled |-> 0,
       remind_time |-> "20:00"] }

(* close() of a connection with uncommitted changes keeps the committed rows *)
close(committed, uncommitted) == committed

NoOp == [op |-> "init_db", ok |-> TRUE, ret |-> 0,
         amount |-> 0, type |-> "", category_id |-> 0, date |-> "",
         tag |-> "", remark |-> "", now |-> "", months |-> 0,
         budget_id |-> 0, current_spent |-> 0, rows |-> <<>>, unclosed |-> 0]

Init ==
    /\ categories = close({}, init_db_inserted)
    /\ transactions = {}
    /\ budgets = {}
    /\ settings = close({}, settings_inserted)
    /\ seq = [categories |-> 0, transactions |-> 0, budgets |-> 0]
    /\ lastOp = NoOp

(***************************************************************************)
(* Transaction control of one call: the operation works on the rows its    *)
(* connection sees and ends with commit() or rollback().                   *)
(***************************************************************************)
commit(committed, working) == working

(* a rollback that leaves the rows written so far in place *)
rollback_keeps_writes(committed, working) == working

rollback(committed, working) == committed

(***************************************************************************)
(* init_db run again: DBUtil(db_name) on a database file that exists.      *)
(* CREATE TABLE IF NOT EXISTS changes nothing; the INSERT OR IGNOREs meet  *)
(* no UNIQUE constraint on name or user_id, so each adds a row with the    *)
(* next id to what the connection sees; close() then discards them and     *)
(* the ids they took.                                                      *)
(***************************************************************************)
insert_defaults(C, last_id) ==
    C \cup { [category_id |-> last_id + i, name |-> default_categories[i][1],
              type |-> default_categories[i][2]]
             : i \in 1..Len(default_categories) }

insert_setting(S) ==
    S \cup { [setting_id |-> Cardinality(S) + 1, user_id |-> 1,
              remind_enabled |-> 0, remind_time |-> "20:00"] }

init_db ==
    /\ categories' = close(categories,
                           insert_defaults(categories, seq.categories))
    /\ settings' = close(settings, insert_setting(settings))
    /\ seq' = close(seq, [seq EXCEPT !.categories =
                                         seq.categories + Len(default_categories)])
    /\ lastOp' = NoOp
    /\ UNCHANGED <<transactions, budgets>>

(***************************************************************************)
(* update_remind_setting                                                   *)
(***************************************************************************)
(* UPDATE settings SET remind_enabled = ?, remind_time = ? WHERE user_id = 1 *)
update_settings(S, enabled, time) ==
    { IF r.user_id = 1
      THEN [r EXCEPT !.remind_enabled = enabled, !.remind_time = time]
      ELSE r : r \in S }

update_remind_setting(enabled, time) ==
    /\ settings' = commit(settings, update_settings(settings, enabled, time))
    /\ lastOp' = [NoOp EXCEPT !.op = "update_remind_setting", !.ok = TRUE,
                  !.ret = enabled, !.date = time]
    /\ UNCHANGED <<categories, transactions, budgets, seq>>

(***************************************************************************)
(* add_transaction                                                         *)
(***************************************************************************)
(* INSERT INTO transactions: the new row gets the next AUTOINCREMENT id *)
insert_transaction(T, transaction_id, amount, type_, category_id, date, tag, remark) ==
    T \cup {[transaction_id |-> transaction_id, amount |-> amount,
             type |-> type_, category_id |-> category_id,
             date |-> date, tag |-> tag, remark |-> remark]}

(* the budget is updated for every type *)
updates_budget_any_type(type_) == TRUE

(* if type_ == 'EXPENSE' *)
updates_budget(type_) == type_ = "EXPENSE"

(* the month of a transaction date: date[:7] *)
transaction_month(date) == Prefix(date, 7)

(* the budget is looked up by category alone *)
find_budget_any_month(B, category_id, month) ==
    { b \in B : b.category_id = category_id }

(* SELECT ... FROM budgets WHERE category_id = ? AND month = ? *)
find_budget(B, category_id, month) ==
    { b \in B : b.category_id = category_id /\ b.month = month }

(* cursor.fetchone(): a row of the result, or None (budget_id 0) *)
fetchone(found) ==
    IF found = {} THEN [budget_id |-> 0, spent |-> 0]
    ELSE CHOOSE b \in found : TRUE

(* the amount replaces the cached total instead of adding to it *)
new_spent_overwrite(current_spent, amount) == amount

new_spent(current_spent, amount) == current_spent + amount

(* UPDATE budgets SET spent = ? WHERE budget_id = ? *)
update_spent(B, budget_id, spent) ==
    { IF b.budget_id = budget_id THEN [b EXCEPT !.spent = spent] ELSE b
      : b \in B }

add_transaction(amount, type_, category_id, date, dateIsStr, tag, remark) ==
    /\ seq.transactions < MaxTx
    /\ LET transaction_id == seq.transactions + 1
           inserted == insert_transaction(transactions, transaction_id, amount,
                           type_, category_id, date, tag, remark)
           budget == fetchone(find_budget(budgets, category_id,
                                          transaction_month(date)))
           updated == IF updates_budget(type_) /\ budget.budget_id # 0
                      THEN update_spent(budgets, budget.budget_id,
                                        new_spent(budget.spent, amount))
                      ELSE budgets
           (* the INSERT raises on the CHECK constraint *)
           insertRaised == ~TypeCheck(type_)
           (* date[:7] raises when the date is not a string *)
           sliceRaised == updates_budget(type_) /\ ~dateIsStr
           call == [NoOp EXCEPT !.op = "add_transaction", !.amount = amount,
                    !.type = type_, !.category_id = category_id,
                    !.date = date]
       IN IF insertRaised
          THEN /\ transactions' = rollback(transactions, transactions)
               /\ budgets' = rollback(budgets, budgets)
               /\ lastOp' = [call EXCEPT !.ok = FALSE]
               /\ UNCHANGED <<categories, seq, settings>>
          ELSE IF sliceRaised
          THEN /\ transactions' = rollback(transactions, inserted)
               /\ budgets' = rollback(budgets, budgets)
               /\ lastOp' = [call EXCEPT !.ok = FALSE]
               /\ UNCHANGED <<categories, seq, settings>>
          ELSE /\ transactions' = commit(transactions, inserted)
               /\ budgets' = commit(budgets, updated)
               /\ seq' = [seq EXCEPT !.transactions = transaction_id]
               /\ lastOp' = [call EXCEPT !.ok = TRUE, !.ret = transaction_id,
                             !.budget_id =
                                 IF updates_budget(type_) THEN budget.budget_id
                                 ELSE 0,
                             !.current_spent =
                                 IF updates_budget(type_) THEN budget.spent
                                 ELSE 0]
               /\ UNCHANGED <<categories, settings>>

(***************************************************************************)
(* delete_duplicate_transactions                                           *)
(***************************************************************************)
(* the group key without the tag and the remark *)
same_group_without_text(t, u) ==
    /\ t.amount = u.amount /\ t.type = u.type
    /\ t.category_id = u.category_id /\ t.date = u.date

(* GROUP BY amount, type, category_id, date, tag, remark *)
same_group(t, u) ==
    /\ t.amount = u.amount /\ t.type = u.type
    /\ t.category_id = u.category_id /\ t.date = u.date
    /\ t.tag = u.tag /\ t.remark = u.remark

(* SELECT MIN(transaction_id) FROM transactions GROUP BY ... *)
min_ids(T) ==
    { t.transaction_id : t \in
        { t \in T : \A u \in T : same_group(t, u)
                                   => t.transaction_id <= u.transaction_id } }

(* IN in place of NOT IN: the earliest row of every group is deleted *)
delete_duplicates_in(T) == { t \in T : t.transaction_id \notin min_ids(T) }

(* DELETE FROM transactions WHERE transaction_id NOT IN (...): the rows kept *)
delete_duplicates(T) == { t \in T : t.transaction_id \in min_ids(T) }

(* the call followed by a recomputation of every budget's spent *)
delete_duplicate_transactions_rebalancing ==
    LET kept == { t \in transactions : t.transaction_id \in min_ids(transactions) }
    IN /\ transactions' = kept
       /\ budgets' = { [b EXCEPT !.spent =
                           SumAmount({ t \in kept :
                               /\ t.category_id = b.category_id
                               /\ t.type = "EXPENSE"
                               /\ Prefix(t.date, 7) = b.month })]
                       : b \in budgets }
       /\ lastOp' = [NoOp EXCEPT !.op = "delete_duplicate_transactions",
                     !.ok = TRUE,
                     !.ret = Cardinality(transactions) - Cardinality(kept)]
       /\ UNCHANGED <<categories, seq, settings>>

delete_duplicate_transactions ==
    LET kept == delete_duplicates(transactions)
        deleted_count == Cardinality(transactions) - Cardinality(kept)
    IN /\ transactions' = commit(transactions, kept)
       /\ lastOp' = [NoOp EXCEPT !.op = "delete_duplicate_transactions",
                     !.ok = TRUE, !.ret = deleted_count]
       /\ UNCHANGED <<categories, budgets, seq, settings>>

(***************************************************************************)
(* add_custom_category                                                     *)
(***************************************************************************)
add_custom_category(name, type_) ==
    /\ seq.categories < MaxCat
    /\ LET category_id == seq.categories + 1
           inserted == categories \cup
               {[category_id |-> category_id, name |-> name, type |-> type_]}
           call == [NoOp EXCEPT !.op = "add_custom_category", !.type = type_]
       IN IF ~TypeCheck(type_)
          THEN /\ categories' = rollback(categories, categories)
               /\ lastOp' = [call EXCEPT !.ok = FALSE]
               /\ UNCHANGED <<transactions, budgets, seq, settings>>
          ELSE /\ categories' = commit(categories, inserted)
               /\ seq' = [seq EXCEPT !.categories = category_id]
               /\ lastOp' = [call EXCEPT !.ok = TRUE, !.ret = category_id]
               /\ UNCHANGED <<transactions, budgets, settings>>

(***************************************************************************)
(* set_monthly_budget                                                      *)
(***************************************************************************)
(* spent starts at 0 whatever was recorded before *)
expense_sum_zero(T, category_id, month) == 0

(* the expenses whose date begins with the month, as date LIKE 'month%' *)
expense_sum_by_prefix(T, category_id, month) ==
    SumAmount({ t \in T : /\ t.category_id = category_id
                          /\ t.type = "EXPENSE"
                          /\ Prefix(t.date, Len(month)) = month })

(* SELECT COALESCE(SUM(amount), 0) FROM transactions WHERE category_id = ? *)
(* AND type = 'EXPENSE' AND SUBSTR(date, 1, 7) = ?                         *)
expense_sum(T, category_id, month) ==
    SumAmount({ t \in T : /\ t.category_id = category_id
                          /\ t.type = "EXPENSE"
                          /\ Prefix(t.date, 7) = month })

(* UPDATE without the WHERE clause *)
update_budget_all(B, budget_id, amount, spent) ==
    { [b EXCEPT !.amount = amount, !.spent = spent] : b \in B }

(* UPDATE budgets SET amount = ?, spent = ? WHERE budget_id = ? *)
update_budget(B, budget_id, amount, spent) ==
    { IF b.budget_id = budget_id
      THEN [b EXCEPT !.amount = amount, !.spent = spent] ELSE b : b \in B }

(* INSERT INTO budgets (category_id, month, amount, spent) *)
insert_budget(B, budget_id, category_id, month, amount, spent) ==
    B \cup {[budget_id |-> budget_id, category_id |-> category_id,
             month |-> month, amount |-> amount, spent |-> spent]}

(* UNIQUE (category_id, month) *)
unique_violated(B, category_id, month) ==
    \E b \in B : b.category_id = category_id /\ b.month = month

set_monthly_budget(category_id, month, amount, amountIsNone) ==
    LET current_spent == expense_sum(transactions, category_id, month)
        budget == fetchone(find_budget(budgets, category_id, month))
        budget_id == seq.budgets + 1
        working == IF budget.budget_id # 0
                   THEN update_budget(budgets, budget.budget_id, amount,
                                      current_spent)
                   ELSE insert_budget(budgets, budget_id, category_id, month,
                                      amount, current_spent)
        (* amount REAL NOT NULL, UNIQUE (category_id, month) *)
        raised == \/ amountIsNone
                  \/ /\ budget.budget_id = 0
                     /\ unique_violated(budgets, category_id, month)
        call == [NoOp EXCEPT !.op = "set_monthly_budget",
                 !.amount = amount, !.category_id = category_id,
                 !.date = month]
    IN /\ budget.budget_id = 0 => seq.budgets < MaxBudgets
       /\ IF raised
          THEN /\ budgets' = rollback(budgets, budgets)
               /\ lastOp' = [call EXCEPT !.ok = FALSE]
               /\ UNCHANGED <<categories, transactions, seq, settings>>
          ELSE /\ budgets' = commit(budgets, working)
               /\ seq' = IF budget.budget_id # 0 THEN seq
                         ELSE [seq EXCEPT !.budgets = budget_id]
               /\ lastOp' = [call EXCEPT !.ok = TRUE,
                             !.budget_id = budget.budget_id,
                             !.current_spent = current_spent]
               /\ UNCHANGED <<categories, transactions, settings>>

(***************************************************************************)
(* get_monthly_budget_status                                               *)
(***************************************************************************)
(* the join without the filter on the month *)
budget_join_all_months(month) ==
    { p \in budgets \X categories : p[1].category_id = p[2].category_id }

(* FROM budgets b JOIN categories c ON b.category_id = c.category_id *)
(* WHERE b.month = month                                             *)
budget_join(month) ==
    { p \in budgets \X categories :
        p[1].category_id = p[2].category_id /\ p[1].month = month }

(* SUM(t.amount) over the rows of a group, with                           *)
(* LEFT JOIN transactions t ON b.category_id = t.category_id              *)
(*   AND t.type = 'EXPENSE' AND SUBSTR(t.date, 1, 7) = b.month            *)
RECURSIVE group_spent(_)
group_spent(G) ==
    IF G = {} THEN 0
    ELSE LET p == CHOOSE x \in G : TRUE
         IN expense_sum(transactions, p[1].category_id, p[1].month)
            + group_spent(G \ {p})

(* GROUP BY c.name, b.amount: one result row for each group *)
budget_status_rows(month) ==
    LET J == budget_join(month)
        group(name, amount) ==
            { p \in J : p[2].name = name /\ p[1].amount = amount }
    IN { [name |-> p[2].name, amount |-> p[1].amount,
          spent |-> group_spent(group(p[2].name, p[1].amount)),
          remain |-> p[1].amount - group_spent(group(p[2].name, p[1].amount)),
          types |-> { q[2].type : q \in group(p[2].name, p[1].amount) }]
         : p \in J }

TypeRank(type_) == IF type_ = "INCOME" THEN 1 ELSE 0

NameOrder == <<"Food", "Rent">>

NameRank(name) == CHOOSE i \in 1..Len(NameOrder) : NameOrder[i] = name

(* ORDER BY c.type DESC, c.name ASC; c.type is not a grouping column, so *)
(* a group takes it from any one of its rows                             *)
status_orderings(R) ==
    { s \in [1..Cardinality(R) -> R] :
        /\ \A i, j \in 1..Cardinality(R) : i # j => s[i] # s[j]
        /\ \E f \in [R -> {"INCOME", "EXPENSE"}] :
             /\ \A r \in R : f[r] \in r.types
             /\ \A i, j \in 1..Cardinality(R) : i < j =>
                  \/ TypeRank(f[s[i]]) > TypeRank(f[s[j]])
                  \/ /\ f[s[i]] = f[s[j]]
                     /\ NameRank(s[i].name) <= NameRank(s[j].name) }

(* the tuples returned: (name, amount, spent, remain) *)
status_result(s) ==
    [i \in 1..Len(s) |-> [name |-> s[i].name, amount |-> s[i].amount,
                          spent |-> s[i].spent, remain |-> s[i].remain]]

get_monthly_budget_status(month) ==
    /\ \E s \in status_orderings(budget_status_rows(month)) :
         lastOp' = [NoOp EXCEPT !.op = "get_monthly_budget_status",
                    !.date = month, !.rows = status_result(s)]
    /\ UNCHANGED <<categories, transactions, budgets, seq, settings>>

Next ==
    \/ \E c \in TransactionCalls :
          add_transaction(c.amount, c.type, c.category_id, c.date,
                          c.dateIsStr, "", "")
    \/ delete_duplicate_transactions
    \/ \E c \in CategoryCalls : add_custom_category(c[1], c[2])
    \/ \E c \in BudgetCalls :
          set_monthly_budget(c.category_id, c.month, c.amount, c.amountIsNone)
    \/ \E month \in Months : get_monthly_budget_status(month)

Spec == Init /\ [][Next]_vars

(***************************************************************************)
(* Text: characters, str.strip(), the LIKE operator and the order of the   *)
(* BINARY collation.                                                       *)
(***************************************************************************)
Range(f) == { f[i] : i \in DOMAIN f }

Char(s, i) == SubSeq(s, i, i)

Rest(s) == SubSeq(s, 2, Len(s))

(* date.strip(): surrounding blanks removed *)
RECURSIVE strip(_)
strip(s) ==
    IF Len(s) > 0 /\ Char(s, 1) = " " THEN strip(Rest(s))
    ELSE IF Len(s) > 0 /\ Char(s, Len(s)) = " "
         THEN strip(SubSeq(s, 1, Len(s) - 1))
         ELSE s

UpperCase == "ABCDEFGHIJKLMNOPQRSTUVWXYZ"

LowerCase == "abcdefghijklmnopqrstuvwxyz"

(* LIKE compares the letters A-Z without regard to case *)
FoldedLetter ==
    [c \in { Char(UpperCase, i) : i \in 1..Len(UpperCase) } |->
        Char(LowerCase, CHOOSE i \in 1..Len(UpperCase) : Char(UpperCase, i) = c)]

ascii_fold(c) == IF c \in DOMAIN FoldedLetter THEN FoldedLetter[c] ELSE c

(* text LIKE pattern: % is any run of characters, _ any one character *)
RECURSIVE like(_, _)
like(text, pattern) ==
    IF pattern = "" THEN text = ""
    ELSE IF Char(pattern, 1) = "%"
         THEN \/ like(text, Rest(pattern))
              \/ (text # "" /\ like(Rest(text), pattern))
         ELSE /\ text # ""
              /\ \/ Char(pattern, 1) = "_"
                 \/ Char(text, 1) = Char(pattern, 1)
                 \/ ascii_fold(Char(text, 1)) = ascii_fold(Char(pattern, 1))
              /\ like(Rest(text), Rest(pattern))

(* the characters of the model in the order of their codes *)
CharOrder ==
    " %-0123456789ABCDEFGHIJKLMNOPQRSTUVWXYZ_abcdefghijklmnopqrstuvwxyz"

CharRanks ==
    [c \in { Char(CharOrder, i) : i \in 1..Len(CharOrder) } |->
        CHOOSE i \in 1..Len(CharOrder) : Char(CharOrder, i) = c]

CharRank(c) == CharRanks[c]

(* a < b as TEXT values *)
RECURSIVE text_less(_, _)
text_less(a, b) ==
    IF b = "" THEN FALSE
    ELSE IF a = "" THEN TRUE
    ELSE IF Char(a, 1) = Char(b, 1) THEN text_less(Rest(a), Rest(b))
    ELSE CharRank(Char(a, 1)) < CharRank(Char(b, 1))

(***************************************************************************)
(* get_transactions_by_condition.  An argument left out (None) is the      *)
(* empty string, or 0 for category_id; the code treats both alike.         *)
(***************************************************************************)
(* the length is taken of the argument as given, not of date.strip() *)
date_condition_unstripped(date, t_date) ==
    IF date = "" THEN TRUE
    ELSE IF Len(date) = 4 THEN Prefix(t_date, 4) = strip(date)
    ELSE IF Len(date) = 7 THEN Prefix(t_date, 7) = strip(date)
    ELSE IF Len(date) = 10 THEN t_date = strip(date)
    ELSE TRUE

(* the year is not recognised: only year-month and exact date are *)
date_condition_without_year(date, t_date) ==
    IF date = "" THEN TRUE
    ELSE IF Len(strip(date)) = 7 THEN Prefix(t_date, 7) = strip(date)
    ELSE IF Len(strip(date)) = 10 THEN t_date = strip(date)
    ELSE TRUE

(* the date condition appended for the given date argument *)
date_condition(date, t_date) ==
    IF date = "" THEN TRUE
    ELSE LET date_len == Len(strip(date))
         IN IF date_len = 4 THEN Prefix(t_date, 4) = strip(date)
            ELSE IF date_len = 7 THEN Prefix(t_date, 7) = strip(date)
            ELSE IF date_len = 10 THEN t_date = strip(date)
            ELSE TRUE

(* a literal, case-sensitive substring test *)
like_condition_literal(text, s) ==
    \E i \in 0..(Len(text) - Len(s)) : SubSeq(text, i + 1, i + Len(s)) = s

(* t.tag LIKE '%tag%' *)
like_condition(text, s) == like(text, "%" \o s \o "%")

(* FROM transactions t JOIN categories c ON t.category_id = c.category_id *)
(* WHERE 1=1 AND ...: the rows selected                                   *)
condition_rows(date, type_, category_id, tag, remark) ==
    { [transaction_id |-> p[1].transaction_id, amount |-> p[1].amount,
       type |-> p[1].type, name |-> p[2].name, date |-> p[1].date,
       tag |-> p[1].tag, remark |-> p[1].remark]
      : p \in { q \in transactions \X categories :
                  /\ q[1].category_id = q[2].category_id
                  /\ date_condition(date, q[1].date)
                  /\ (type_ # "" => q[1].type = type_)
                  /\ (category_id # 0 => q[1].category_id = category_id)
                  /\ (tag # "" => like_condition(q[1].tag, tag))
                  /\ (remark # "" => like_condition(q[1].remark, remark)) } }

(* ORDER BY t.date DESC, t.create_time DESC: create_time is the second of *)
(* the insert, so rows of one date come in any order a clock allows       *)
condition_orderings(R) ==
    { s \in [1..Cardinality(R) -> R] :
        /\ \A i, j \in 1..Cardinality(R) : i # j => s[i] # s[j]
        /\ \A i, j \in 1..Cardinality(R) :
             i < j => ~text_less(s[i].date, s[j].date) }

get_transactions_by_condition(date, type_, category_id, tag, remark) ==
    /\ \E s \in condition_orderings(
                   condition_rows(date, type_, category_id, tag, remark)) :
         lastOp' = [NoOp EXCEPT !.op = "get_transactions_by_condition",
                    !.date = date, !.type = type_,
                    !.category_id = category_id, !.tag = tag,
                    !.remark = remark, !.rows = s]
    /\ UNCHANGED <<categories, transactions, budgets, seq, settings>>

(***************************************************************************)
(* get_recent_transactions                                                 *)
(***************************************************************************)
(* LIMIT ? *)
limit_rows(s, limit) ==
    IF limit < 0 \/ limit >= Len(s) THEN s ELSE SubSeq(s, 1, limit)

(* the call as a read that also removes the rows it returns *)
get_recent_transactions_consuming(limit) ==
    /\ \E s \in condition_orderings(condition_rows("", "", 0, "", "")) :
         /\ lastOp' = [NoOp EXCEPT !.op = "get_recent_transactions",
                       !.ret = limit, !.rows = limit_rows(s, limit)]
         /\ transactions' =
                { t \in transactions :
                    \A i \in 1..Len(limit_rows(s, limit)) :
                        limit_rows(s, limit)[i].transaction_id
                            # t.transaction_id }
    /\ UNCHANGED <<categories, budgets, seq, settings>>

get_recent_transactions(limit) ==
    /\ \E s \in condition_orderings(condition_rows("", "", 0, "", "")) :
         lastOp' = [NoOp EXCEPT !.op = "get_recent_transactions",
                    !.ret = limit, !.rows = limit_rows(s, limit)]
    /\ UNCHANGED <<categories, transactions, budgets, seq, settings>>

(***************************************************************************)
(* get_monthly_statistics                                                  *)
(***************************************************************************)
(* the date is compared with the month for equality *)
monthly_sum_exact(T, type_, month) ==
    SumAmount({ t \in T : t.type = type_ /\ t.date = month })

(* SELECT COALESCE(SUM(amount), 0) FROM transactions *)
(* WHERE type = ? AND date LIKE 'month%'             *)
monthly_sum(T, type_, month) ==
    SumAmount({ t \in T : t.type = type_ /\ like(t.date, month \o "%") })

(* (total_income, total_expense, balance) *)
monthly_statistics(T, month) ==
    LET total_income == monthly_sum(T, "INCOME", month)
        total_expense == monthly_sum(T, "EXPENSE", month)
    IN << total_income, total_expense, total_income - total_expense >>

get_monthly_statistics(month) ==
    /\ lastOp' = [NoOp EXCEPT !.op = "get_monthly_statistics",
                  !.date = month,
                  !.rows = monthly_statistics(transactions, month)]
    /\ UNCHANGED <<categories, transactions, budgets, seq, settings>>

(***************************************************************************)
(* The store under queries: categories and transactions are added,         *)
(* duplicates deleted, and the log is read back.                           *)
(***************************************************************************)
QueryTransactionCall(amount, type_, category_id, date, tag, remark) ==
    [amount |-> amount, type |-> type_, category_id |-> category_id,
     date |-> date, tag |-> tag, remark |-> remark]

QueryTransactionCalls ==
    { QueryTransactionCall(1, "EXPENSE", 1, "2025-01-02", "lunch", ""),
      QueryTransactionCall(1, "EXPENSE", 1, "2025-01-02", "", ""),
      QueryTransactionCall(2, "INCOME", 1, "2025-02-01", "", ""),
      QueryTransactionCall(1, "EXPENSE", 1, "2026-01-02", "", "noodle"),
      QueryTransactionCall(2, "INCOME", 2, "2025-01-03", "", "") }

(* get_transactions_by_condition(date, type_, category_id, tag, remark) *)
ConditionCall(date, type_, category_id, tag, remark) ==
    [date |-> date, type |-> type_, category_id |-> category_id,
     tag |-> tag, remark |-> remark]

DateArgs == {"", "2025", "2025-01", "2025-01-02", " 2025", "2025-1"}

TextArgs == {"lun", "LUN", "l_n", "%", "unc"}

ConditionCalls ==
    { ConditionCall(d, ty, 0, "", "") :
        d \in DateArgs, ty \in {"", "INCOME", "EXPENSE"} }
    \cup { ConditionCall("", "", 0, s, "") : s \in TextArgs }
    \cup { ConditionCall("", "", 0, "", "NOOD"),
           ConditionCall("", "", 1, "", "") }

NextQuery ==
    \/ \E c \in QueryTransactionCalls :
          add_transaction(c.amount, c.type, c.category_id, c.date, TRUE,
                          c.tag, c.remark)
    \/ \E c \in CategoryCalls : add_custom_category(c[1], c[2])
    \/ delete_duplicate_transactions
    \/ \E c \in ConditionCalls :
          get_transactions_by_condition(c.date, c.type, c.category_id,
                                        c.tag, c.remark)
    \/ \E month \in Months : get_monthly_statistics(month)

SpecQuery == Init /\ [][NextQuery]_vars

(***************************************************************************)
(* The calendar of datetime: a date is [y, m, d]; strftime and strptime    *)
(* convert between dates and text.                                         *)
(***************************************************************************)
Digits == "0123456789"

IsDigit(c) == \E i \in 1..10 : Char(Digits, i) = c

DigitValue(c) == (CHOOSE i \in 1..10 : Char(Digits, i) = c) - 1

DigitText(n) == Char(Digits, n + 1)

IsLeap(y) == y % 4 = 0 /\ (y % 100 # 0 \/ y % 400 = 0)

DaysInMonth(y, m) ==
    IF m = 2 THEN (IF IsLeap(y) THEN 29 ELSE 28)
    ELSE IF m \in {4, 6, 9, 11} THEN 30 ELSE 31

(* date - datetime.timedelta(days=k) *)
RECURSIVE minus_days(_, _)
minus_days(date, k) ==
    IF k < date.d THEN [date EXCEPT !.d = date.d - k]
    ELSE LET py == IF date.m = 1 THEN date.y - 1 ELSE date.y
             pm == IF date.m = 1 THEN 12 ELSE date.m - 1
         IN minus_days([y |-> py, m |-> pm, d |-> DaysInMonth(py, pm)],
                       k - date.d)

(* strftime('%Y-%m') *)
format_month(date) ==
    DigitText(date.y \div 1000) \o DigitText((date.y \div 100) % 10)
    \o DigitText((date.y \div 10) % 10) \o DigitText(date.y % 10)
    \o "-" \o DigitText(date.m \div 10) \o DigitText(date.m % 10)

(* strftime('%Y-%m-%d') *)
format_date(date) ==
    format_month(date) \o "-" \o DigitText(date.d \div 10)
    \o DigitText(date.d % 10)

(* strptime(text, '%Y-%m'): four digits, '-', a month 1..12 of one or two *)
(* digits; anything else raises ValueError (ok FALSE)                     *)
parse_month(text) ==
    LET wellFormed ==
            /\ Len(text) \in {6, 7}
            /\ \A i \in 1..4 : IsDigit(Char(text, i))
            /\ Char(text, 5) = "-"
            /\ \A i \in 6..Len(text) : IsDigit(Char(text, i))
        y == 1000 * DigitValue(Char(text, 1)) + 100 * DigitValue(Char(text, 2))
             + 10 * DigitValue(Char(text, 3)) + DigitValue(Char(text, 4))
        m == IF Len(text) = 6 THEN DigitValue(Char(text, 6))
             ELSE 10 * DigitValue(Char(text, 6)) + DigitValue(Char(text, 7))
    IN IF wellFormed /\ y >= 1 /\ m \in 1..12
          /\ (Len(text) = 7 => (m >= 10 \/ Char(text, 6) = "0"))
       THEN [ok |-> TRUE, y |-> y, m |-> m, d |-> 1]
       ELSE [ok |-> FALSE, y |-> 0, m |-> 0, d |-> 0]

(***************************************************************************)
(* get_balance_trend                                                       *)
(***************************************************************************)
(* SELECT DISTINCT SUBSTR(date, 1, 7) AS month FROM transactions *)
distinct_months(T) == { Prefix(t.date, 7) : t \in T }

(* ORDER BY month DESC *)
RECURSIVE months_desc(_)
months_desc(M) ==
    IF M = {} THEN <<>>
    ELSE LET greatest == CHOOSE m \in M : \A x \in M : ~text_less(m, x)
         IN <<greatest>> \o months_desc(M \ {greatest})

(* the month appended after last_month: the month of the day before the *)
(* first day of last_month (30 days before it in the variant)           *)
prev_month_30_days(last_month) ==
    format_month(minus_days([y |-> parse_month(last_month).y,
                             m |-> parse_month(last_month).m, d |-> 1], 30))

prev_month(last_month) ==
    format_month(minus_days([y |-> parse_month(last_month).y,
                             m |-> parse_month(last_month).m, d |-> 1], 1))

(* strptime raises on a month it cannot parse; date(1, 1, 1) has no day *)
(* before it                                                            *)
prev_month_raises(last_month) ==
    \/ ~parse_month(last_month).ok
    \/ (parse_month(last_month).y = 1 /\ parse_month(last_month).m = 1)

(* while len(all_months) < months: all_months.append(prev_month) *)
RECURSIVE pad_months(_, _)
pad_months(all_months, months) ==
    IF Len(all_months) >= months THEN all_months
    ELSE pad_months(Append(all_months, prev_month(all_months[Len(all_months)])),
                    months)

RECURSIVE pad_raises(_, _)
pad_raises(all_months, months) ==
    IF Len(all_months) >= months THEN FALSE
    ELSE \/ prev_month_raises(all_months[Len(all_months)])
         \/ pad_raises(Append(all_months,
                              prev_month(all_months[Len(all_months)])), months)

(* the months of the trend: those found in the transactions, or the     *)
(* current month when there is none, padded to the number asked for     *)
trend_months(T, now, months) ==
    LET found == months_desc(distinct_months(T))
        all_months == IF found = <<>> THEN <<format_month(now)>> ELSE found
    IN pad_months(all_months, months)

trend_raises(T, now, months) ==
    LET found == months_desc(distinct_months(T))
        all_months == IF found = <<>> THEN <<format_month(now)>> ELSE found
    IN pad_raises(all_months, months)

(* all_months[:months] *)
first_months(all_months, months) ==
    IF months <= 0 THEN <<>>
    ELSE SubSeq(all_months, 1,
                IF Len(all_months) < months THEN Len(all_months) ELSE months)

(* trend_data.sort(key=lambda x: x[0]) of the (month, balance) pairs *)
RECURSIVE trend_data(_, _)
trend_data(T, selected) ==
    IF selected = {} THEN <<>>
    ELSE LET least == CHOOSE m \in selected :
                          \A x \in selected : ~text_less(x, m)
         IN <<<<least, monthly_statistics(T, least)[3]>>>>
            \o trend_data(T, selected \ {least})

(* connect() of the operation, then connect() and close() of every nested  *)
(* get_monthly_statistics, then close(): self.conn is the connection       *)
(* opened last, so the nested calls and the closing close() all close      *)
(* nested connections and the operation's own connection is left open.     *)
(* Without a nested call close() closes the operation's own connection.    *)
unclosed_by_nesting(nested_calls) == IF nested_calls >= 1 THEN 1 ELSE 0

get_balance_trend(now, months) ==
    /\ LET call == [NoOp EXCEPT !.op = "get_balance_trend",
                    !.now = format_date(now), !.months = months]
       IN IF trend_raises(transactions, now, months)
          THEN lastOp' = [call EXCEPT !.ok = FALSE]
          ELSE lastOp' = [call EXCEPT
                   !.rows = trend_data(transactions,
                       Range(first_months(
                           trend_months(transactions, now, months), months))),
                   !.unclosed = unclosed_by_nesting(months)]
    /\ UNCHANGED <<categories, transactions, budgets, seq, settings>>

(***************************************************************************)
(* get_monthly_expense_comparison                                          *)
(***************************************************************************)
(* datetime.datetime.now() - datetime.timedelta(days=30), as '%Y-%m' *)
last_month_of(now) == format_month(minus_days(now, 30))

(* the rate computed without the test for a zero previous expense *)
change_rate_unguarded(current_expense, last_expense) ==
    <<(current_expense - last_expense) * 100, last_expense>>

(* the change rate as a fraction <<numerator, denominator>> *)
change_rate(current_expense, last_expense) ==
    IF last_expense = 0
    THEN (IF current_expense > 0 THEN <<100, 1>> ELSE <<0, 1>>)
    ELSE <<(current_expense - last_expense) * 100, last_expense>>

get_monthly_expense_comparison(now) ==
    /\ LET current_expense ==
               monthly_statistics(transactions, format_month(now))[2]
           last_expense ==
               monthly_statistics(transactions, last_month_of(now))[2]
       IN lastOp' = [NoOp EXCEPT !.op = "get_monthly_expense_comparison",
                     !.now = format_date(now),
                     !.rows = <<current_expense, last_expense,
                                change_rate(current_expense, last_expense)>>,
                     !.unclosed = unclosed_by_nesting(2)]
    /\ UNCHANGED <<categories, transactions, budgets, seq, settings>>

(***************************************************************************)
(* The store under the statistics: transactions are added and the trend    *)
(* and the comparison are read on the first and last days of the months.   *)
(***************************************************************************)
TrendTransactionCalls ==
    { QueryTransactionCall(3, "EXPENSE", 1, "2025-03-05", "", ""),
      QueryTransactionCall(5, "INCOME", 1, "2025-01-20", "", ""),
      QueryTransactionCall(1, "EXPENSE", 1, "2025-12-25", "", "") }

NowYears == {2025}

(* the first and the last day of every month *)
Nows ==
    { date \in [y : NowYears, m : 1..12, d : 1..31] :
        date.d \in {1, DaysInMonth(date.y, date.m)} }

TrendLengths == {2, 6}

NextTrend ==
    \/ \E c \in TrendTransactionCalls :
          add_transaction(c.amount, c.type, c.category_id, c.date, TRUE,
                          c.tag, c.remark)
    \/ \E now \in Nows, months \in TrendLengths :
          get_balance_trend(now, months)
    \/ \E now \in Nows : get_monthly_expense_comparison(now)

SpecTrend == Init /\ [][NextTrend]_vars

(***************************************************************************)
(* The store under all its read operations.  add_transaction stores the    *)
(* date text it is given, here also the bare year '2025'.                  *)
(***************************************************************************)
ReadTransactionCalls ==
    { QueryTransactionCall(5, "INCOME", 1, "2025-01-20", "", ""),
      QueryTransactionCall(1, "EXPENSE", 1, "2025-01-20", "", ""),
      QueryTransactionCall(3, "EXPENSE", 1, "2025", "", "") }

ReadConditionCalls ==
    { ConditionCall("", "", 0, "", ""),
      ConditionCall("2025", "EXPENSE", 0, "", ""),
      ConditionCall("2025-01", "", 1, "", "") }

ReadLimits == {1, 3}

ReadNows == { [y |-> 2025, m |-> 1, d |-> 1], [y |-> 2025, m |-> 3, d |-> 31] }

NextReads ==
    \/ \E c \in ReadTransactionCalls :
          add_transaction(c.amount, c.type, c.category_id, c.date, TRUE,
                          c.tag, c.remark)
    \/ add_custom_category("Food", "EXPENSE")
    \/ set_monthly_budget(1, "2025-01", 3, FALSE)
    \/ \E c \in ReadConditionCalls :
          get_transactions_by_condition(c.date, c.type, c.category_id,
                                        c.tag, c.remark)
    \/ \E limit \in ReadLimits : get_recent_transactions(limit)
    \/ \E month \in Months : get_monthly_statistics(month)
    \/ \E month \in Months : get_monthly_budget_status(month)
    \/ \E now \in ReadNows, months \in TrendLengths :
          get_balance_trend(now, months)
    \/ \E now \in ReadNows : get_monthly_expense_comparison(now)

SpecReads == Init /\ [][NextReads]_vars

(***************************************************************************)
(* The store under add_transaction and set_monthly_budget alone, called    *)
(* also with a bare year as the date and as the budget month.              *)
(***************************************************************************)
AgreementTransactionCalls ==
    TransactionCalls \cup { TransactionCall(3, "EXPENSE", 1, "2025", TRUE) }

AgreementBudgetCalls == BudgetCalls \cup { BudgetCall(1, "2025", 3, FALSE) }

NextAgreement ==
    \/ \E c \in AgreementTransactionCalls :
          add_transaction(c.amount, c.type, c.category_id, c.date,
                          c.dateIsStr, "", "")
    \/ \E c \in AgreementBudgetCalls :
          set_monthly_budget(c.category_id, c.month, c.amount, c.amountIsNone)

SpecAgreement == Init /\ [][NextAgreement]_vars

(***************************************************************************)
(* The value a writing operation returns and the test a caller makes of it *)
(***************************************************************************)
(* add_transaction, delete_duplicate_transactions and add_custom_category *)
(* return a pair (True, value) or (False, message); set_monthly_budget    *)
(* and update_remind_setting return True or the pair (False, message)     *)
returns_tuple(op) ==
    \/ op.op \in {"add_transaction", "delete_duplicate_transactions",
                  "add_custom_category"}
    \/ ~op.ok

(* if success: a pair is true whatever it holds, True is true *)
success_branch(op) == IF returns_tuple(op) THEN TRUE ELSE op.ok

(***************************************************************************)
(* The store across startups: init_db runs again between the writes.       *)
(***************************************************************************)
RemindCalls == { <<1, "21:00">>, <<0, "20:00">> }

NextStartup ==
    \/ init_db
    \/ \E c \in CategoryCalls : add_custom_category(c[1], c[2])
    \/ \E c \in TransactionCalls :
          add_transaction(c.amount, c.type, c.category_id, c.date,
                          c.dateIsStr, "", "")
    \/ \E c \in BudgetCalls :
          set_monthly_budget(c.category_id, c.month, c.amount, c.amountIsNone)
    \/ \E c \in RemindCalls : update_remind_setting(c[1], c[2])

SpecStartup == Init /\ [][NextStartup]_vars

(***************************************************************************)
(* Properties                                                              *)
(***************************************************************************)
(* the sum of the stored EXPENSE transactions of a category and month *)
TrueSpent(T, category_id, month) ==
    SumAmount({ t \in T : /\ t.type = "EXPENSE"
                          /\ t.category_id = category_id
                          /\ Len(t.date) >= 7
                          /\ SubSeq(t.date, 1, 7) = month })

IsAdd(op) == op.op = "add_transaction"
IsSet(op) == op.op = "set_monthly_budget"
IsDelete(op) == op.op = "delete_duplicate_transactions"
IsStatus(op) == op.op = "get_monthly_budget_status"

(* the budget row of a category and month *)
Keyed(b, category_id, month) ==
    b.category_id = category_id /\ b.month = month

(* C1: in every reachable state every budget row's cached spent equals the *)
(* sum of the stored EXPENSE transactions of its category and month.       *)
C1_SpentEqualsSum ==
    \A b \in budgets : b.spent = TrueSpent(transactions, b.category_id, b.month)

(* C2: on a freshly initialised store, after set_monthly_budget(c, m, B)   *)
(* and successful expenses a1..ak of category c in month m, the status of  *)
(* month m contains the row (name of c, B, a1+...+ak, B-(a1+...+ak)).      *)
C2_Scenario(b) ==
    /\ seq.categories = 0
    /\ budgets = {b} /\ seq.budgets = 1
    /\ Cardinality(transactions) = seq.transactions
    /\ \A t \in transactions :
         /\ t.type = "EXPENSE" /\ t.category_id = b.category_id
         /\ Len(t.date) >= 7 /\ SubSeq(t.date, 1, 7) = b.month

C2_StatusShowsBudgetRow ==
    \A b \in budgets :
        (C2_Scenario(b) /\ IsStatus(lastOp) /\ lastOp.date = b.month) =>
            \E i \in DOMAIN lastOp.rows :
                /\ lastOp.rows[i].amount = b.amount
                /\ lastOp.rows[i].spent = SumAmount(transactions)
                /\ lastOp.rows[i].remain = b.amount - SumAmount(transactions)

(* C3: a successful add_transaction of kind EXPENSE increases the cached   *)
(* spent of the budget row of (category_id, date[:7]) by exactly amount.   *)
C3_ExpenseIncreasesSpent ==
    [][ (IsAdd(lastOp') /\ lastOp'.ok /\ lastOp'.type = "EXPENSE") =>
          \A b \in budgets :
              Keyed(b, lastOp'.category_id, SubSeq(lastOp'.date, 1, 7)) =>
                  [b EXCEPT !.spent = b.spent + lastOp'.amount] \in budgets'
      ]_vars

(* two expenses of the budgeted category and month, spent is their sum *)
C3_Witness ==
    /\ IsAdd(lastOp) /\ lastOp.ok /\ lastOp.type = "EXPENSE"
    /\ lastOp.budget_id # 0 /\ lastOp.current_spent > 0
    /\ Cardinality(transactions) = 2
    /\ \E b \in budgets :
         /\ b.budget_id = lastOp.budget_id
         /\ b.spent = lastOp.current_spent + lastOp.amount
         /\ b.spent = SumAmount(transactions)

(* C4: right after a successful set_monthly_budget(c, m, amount) the row   *)
(* (c, m) has spent equal to the sum of the stored EXPENSE transactions of *)
(* category c in month m.                                                  *)
C4_SetBudgetRecomputes ==
    [][ (IsSet(lastOp') /\ lastOp'.ok) =>
          \E b \in budgets' :
              /\ Keyed(b, lastOp'.category_id, lastOp'.date)
              /\ b.spent = TrueSpent(transactions', b.category_id, b.month)
      ]_vars

(* a budget created after expenses of its category and month were recorded *)
C4_Witness ==
    /\ IsSet(lastOp) /\ lastOp.ok
    /\ lastOp.budget_id = 0 /\ lastOp.current_spent > 0
    /\ \E b \in budgets :
         /\ Keyed(b, lastOp.category_id, lastOp.date)
         /\ b.spent = lastOp.current_spent

(* C5: add_transaction of kind INCOME changes no budget row. *)
C5_IncomeLeavesBudgets ==
    [][ (IsAdd(lastOp') /\ lastOp'.type = "INCOME") => budgets' = budgets
      ]_vars

(* an income recorded for a category and month that has a budget *)
C5_Witness ==
    /\ IsAdd(lastOp) /\ lastOp.ok /\ lastOp.type = "INCOME"
    /\ \E b \in budgets :
         Keyed(b, lastOp.category_id, SubSeq(lastOp.date, 1, 7))

(* C6: a failed add_transaction leaves transactions and budgets as they    *)
(* were before the call.                                                   *)
C6_FailedAddChangesNothing ==
    [][ (IsAdd(lastOp') /\ ~lastOp'.ok) =>
          /\ transactions' = transactions
          /\ budgets' = budgets
          /\ seq' = seq
      ]_vars

(* an expense that failed after its row was inserted, with budgets stored *)
C6_Witness ==
    /\ IsAdd(lastOp) /\ ~lastOp.ok /\ lastOp.type = "EXPENSE"
    /\ budgets # {} /\ transactions # {}

(* C7: add_transaction inserts and deletes no budget row and changes no    *)
(* budget row other than the one of (category_id, date[:7]).               *)
C7_AddTouchesOnlyItsBudget ==
    [][ IsAdd(lastOp') =>
          /\ { b.budget_id : b \in budgets' } = { b.budget_id : b \in budgets }
          /\ Cardinality(budgets') = Cardinality(budgets)
          /\ \A b \in budgets :
               \/ b \in budgets'
               \/ /\ Len(lastOp'.date) >= 7
                  /\ Keyed(b, lastOp'.category_id, SubSeq(lastOp'.date, 1, 7))
      ]_vars

(* an expense with no matching budget, its category budgeted in another month *)
C7_Witness ==
    /\ IsAdd(lastOp) /\ lastOp.ok /\ lastOp.type = "EXPENSE"
    /\ lastOp.budget_id = 0
    /\ \E b \in budgets :
         /\ b.category_id = lastOp.category_id
         /\ b.month # SubSeq(lastOp.date, 1, 7)
         /\ b.spent = 0

(* C8: at most one budget row per (category_id, month); set_monthly_budget *)
(* updates the amount of an existing row or adds exactly one row, and      *)
(* changes no other budget row and no transaction.                         *)
C8_Unique ==
    \A b1, b2 \in budgets :
        Keyed(b1, b2.category_id, b2.month) => b1 = b2

C8_Step ==
    IsSet(lastOp') =>
        /\ transactions' = transactions
        /\ categories' = categories
        /\ \A b \in budgets :
             Keyed(b, lastOp'.category_id, lastOp'.date) \/ b \in budgets'
        /\ IF ~lastOp'.ok THEN budgets' = budgets
           ELSE IF \E b \in budgets :
                      Keyed(b, lastOp'.category_id, lastOp'.date)
           THEN /\ Cardinality(budgets') = Cardinality(budgets)
                /\ \E b \in budgets, b2 \in budgets' :
                     /\ Keyed(b, lastOp'.category_id, lastOp'.date)
                     /\ b2.budget_id = b.budget_id
                     /\ Keyed(b2, lastOp'.category_id, lastOp'.date)
                     /\ b2.amount = lastOp'.amount
           ELSE /\ Cardinality(budgets') = Cardinality(budgets) + 1
                /\ \E b2 \in budgets' :
                     /\ Keyed(b2, lastOp'.category_id, lastOp'.date)
                     /\ b2.amount = lastOp'.amount

C8_InsertOrUpdate == []C8_Unique /\ [][C8_Step]_vars

(* an existing budget updated to a new amount while another row is stored *)
C8_Witness ==
    /\ IsSet(lastOp) /\ lastOp.ok /\ lastOp.budget_id # 0
    /\ Cardinality(budgets) = 2
    /\ \E b \in budgets :
         /\ b.budget_id = lastOp.budget_id /\ b.amount = lastOp.amount
    /\ \E b \in budgets : b.amount # lastOp.amount

(* C9: get_monthly_budget_status(month) returns rows only for categories   *)
(* with a budget row of exactly that month, nothing when there is none,    *)
(* and remaining = budgeted amount - spent in every row.                   *)
C9_StatusRows ==
    IsStatus(lastOp) =>
        \A i \in DOMAIN lastOp.rows :
            LET r == lastOp.rows[i]
            IN /\ r.remain = r.amount - r.spent
               /\ \E b \in budgets, c \in categories :
                    /\ b.month = lastOp.date
                    /\ b.category_id = c.category_id
                    /\ c.name = r.name
                    /\ b.amount = r.amount

(* an overspent row is reported while a budget of another month is stored *)
C9_Witness ==
    /\ IsStatus(lastOp)
    /\ \E i \in DOMAIN lastOp.rows : lastOp.rows[i].remain < 0
    /\ \E b \in budgets : b.month # lastOp.date

(* C10: delete_duplicate_transactions is idempotent: in every reachable    *)
(* state a second call right after a first deletes 0 rows and changes      *)
(* nothing.                                                                *)
C10_SecondCallDeletesNothing ==
    LET once == delete_duplicates(transactions)
        twice == delete_duplicates(once)
    IN /\ twice = once
       /\ Cardinality(once) - Cardinality(twice) = 0

C10_ConsecutiveCalls ==
    (IsDelete(lastOp) /\ IsDelete(lastOp')) =>
        /\ lastOp'.ret = 0
        /\ transactions' = transactions
        /\ budgets' = budgets
        /\ categories' = categories

C10_Idempotent == []C10_SecondCallDeletesNothing /\ [][C10_ConsecutiveCalls]_vars

(* a first call has just deleted duplicates *)
C10_Witness == IsDelete(lastOp) /\ lastOp.ret > 0

(* C12: delete_duplicate_transactions leaves every budget row unchanged,   *)
(* amount and cached spent, also when it deletes expenses of a budgeted    *)
(* category and month.                                                     *)
C12_DeleteLeavesBudgets ==
    [][ IsDelete(lastOp') => budgets' = budgets ]_vars

(* duplicates of a budgeted expense were deleted and spent still counts them *)
C12_Witness ==
    /\ IsDelete(lastOp) /\ lastOp.ret > 0
    /\ \E b \in budgets :
         b.spent > TrueSpent(transactions, b.category_id, b.month)

IsQuery(op) == op.op = "get_transactions_by_condition"
IsStats(op) == op.op = "get_monthly_statistics"

StartsWith(text, p) == Len(text) >= Len(p) /\ SubSeq(text, 1, Len(p)) = p

(* the key delete_duplicate_transactions groups by *)
DuplicateKey(t) ==
    <<t.amount, t.type, t.category_id, t.date, t.tag, t.remark>>

(* C11: delete_duplicate_transactions keeps exactly the transaction with   *)
(* the lowest identifier of each group of equal (amount, kind, category,   *)
(* date, tag, remark) and returns the number of rows deleted, which is the *)
(* rows before minus the number of groups.                                 *)
C11_KeepsLowestOfEachGroup ==
    [][ IsDelete(lastOp') =>
          /\ transactions' =
               { t \in transactions :
                   \A u \in transactions :
                       DuplicateKey(u) = DuplicateKey(t)
                           => t.transaction_id <= u.transaction_id }
          /\ lastOp'.ok
          /\ lastOp'.ret = Cardinality(transactions) - Cardinality(transactions')
          /\ lastOp'.ret = Cardinality(transactions)
                 - Cardinality({ DuplicateKey(t) : t \in transactions })
      ]_vars

(* the second of two equal transactions was deleted, the first is kept *)
C11_Witness ==
    /\ IsDelete(lastOp) /\ lastOp.ret = 1 /\ seq.transactions = 2
    /\ \E t \in transactions : t.transaction_id = 1
    /\ \A t \in transactions : t.transaction_id # 2

(* the rows of the last query without its date argument *)
C13_WithoutDate ==
    condition_rows("", lastOp.type, lastOp.category_id, lastOp.tag,
                   lastOp.remark)

(* the rows a date argument of the given text selects by its length *)
C13_Selected(d) ==
    IF Len(d) = 4 \/ Len(d) = 7
    THEN { r \in C13_WithoutDate : StartsWith(r.date, d) }
    ELSE IF Len(d) = 10 THEN { r \in C13_WithoutDate : r.date = d }
    ELSE C13_WithoutDate

(* the argument between its first and last character that is not a blank *)
C13_Trimmed(d) ==
    LET idx == { i \in 1..Len(d) : Char(d, i) # " " }
    IN IF idx = {} THEN ""
       ELSE SubSeq(d, CHOOSE i \in idx : \A j \in idx : i <= j,
                      CHOOSE i \in idx : \A j \in idx : i >= j)

(* C13 as stated: the date filter is dispatched on the length of the given *)
(* string: 4 year prefix, 7 year-month prefix, 10 exact date, any other    *)
(* length of a non-empty string no date filter.                            *)
C13_DispatchOnGivenLength ==
    (IsQuery(lastOp) /\ lastOp.date # "") =>
        Range(lastOp.rows) = C13_Selected(lastOp.date)

(* C13 amended: the dispatch is on the length of the given string with its *)
(* surrounding blanks stripped, and the stripped string is what is matched.*)
C13_DispatchOnStrippedLength ==
    (IsQuery(lastOp) /\ lastOp.date # "") =>
        Range(lastOp.rows) = C13_Selected(C13_Trimmed(lastOp.date))

(* a year given with a leading blank filtered out a transaction *)
C13_Witness ==
    /\ IsQuery(lastOp) /\ lastOp.date = " 2025"
    /\ lastOp.rows # <<>>
    /\ Cardinality(C13_WithoutDate) > Len(lastOp.rows)

Ids(R) == { r.transaction_id : r \in R }

ByDate(d) == condition_rows(d, "", 0, "", "")

HasCategory(t) == \E c \in categories : c.category_id = t.category_id

C14_Periods == { <<"2025", "2025-01", "2025-01-02">> }

LiteralContains(text, s) ==
    \E i \in 0..(Len(text) - Len(s)) : SubSeq(text, i + 1, i + Len(s)) = s

(* s occurs in text when A-Z and a-z are not told apart and _ in s stands *)
(* for any one character                                                  *)
FoldedContains(text, s) ==
    \E i \in 0..(Len(text) - Len(s)) :
        \A k \in 1..Len(s) :
            \/ Char(s, k) = "_"
            \/ ascii_fold(Char(text, i + k)) = ascii_fold(Char(s, k))

HasPercent(s) == \E k \in 1..Len(s) : Char(s, k) = "%"

(* the rows of the last query without its tag, and without its remark *)
C15_WithoutTag ==
    condition_rows(lastOp.date, lastOp.type, lastOp.category_id, "",
                   lastOp.remark)

C15_WithoutRemark ==
    condition_rows(lastOp.date, lastOp.type, lastOp.category_id, lastOp.tag,
                   "")

(* C15 as stated: tag=s (remark=s) returns a transaction exactly when s    *)
(* occurs literally, with the same letter case and no wildcard, in the     *)
(* stored tag (remark).                                                    *)
C15_LiteralSubstring ==
    IsQuery(lastOp) =>
        /\ lastOp.tag # "" =>
             Range(lastOp.rows) =
                 { r \in C15_WithoutTag : LiteralContains(r.tag, lastOp.tag) }
        /\ lastOp.remark # "" =>
             Range(lastOp.rows) =
                 { r \in C15_WithoutRemark :
                     LiteralContains(r.remark, lastOp.remark) }

(* C15 amended: tag=s (remark=s) returns a transaction exactly when s      *)
(* occurs in the stored tag (remark) with the letters A-Z compared without *)
(* regard to case and every _ of s standing for any one character; a % in  *)
(* s stands for any run of characters, so s = '%' returns every row.       *)
C15_Selected(R, text(_), s) ==
    IF s = "%" THEN R
    ELSE { r \in R : FoldedContains(text(r), s) }

C15_LikeSubstring ==
    IsQuery(lastOp) =>
        /\ (lastOp.tag # "" /\ (HasPercent(lastOp.tag) => lastOp.tag = "%")) =>
             LET tagOf(r) == r.tag
             IN Range(lastOp.rows) =
                    C15_Selected(C15_WithoutTag, tagOf, lastOp.tag)
        /\ (lastOp.remark # ""
              /\ (HasPercent(lastOp.remark) => lastOp.remark = "%")) =>
             LET remarkOf(r) == r.remark
             IN Range(lastOp.rows) =
                    C15_Selected(C15_WithoutRemark, remarkOf, lastOp.remark)

(* a tag given in capitals found the transaction tagged in small letters *)
C15_Witness ==
    /\ IsQuery(lastOp) /\ lastOp.tag = "LUN"
    /\ \E i \in DOMAIN lastOp.rows : lastOp.rows[i].tag = "lunch"
    /\ Cardinality(C15_WithoutTag) > Len(lastOp.rows)

(* C16: for every month m the income of get_monthly_statistics(m) equals   *)
(* the sum of the amounts of get_transactions_by_condition(date=m,         *)
(* type_='INCOME'), and the expense that of type_='EXPENSE', also when a   *)
(* transaction's category_id has no category row.                          *)
C16_RoundTrip ==
    \A m \in Months :
        /\ monthly_statistics(transactions, m)[1] =
               SumAmount(condition_rows(m, "INCOME", 0, "", ""))
        /\ monthly_statistics(transactions, m)[2] =
               SumAmount(condition_rows(m, "EXPENSE", 0, "", ""))

(* C17: get_monthly_statistics(month) returns the sum of the INCOME        *)
(* amounts and the sum of the EXPENSE amounts of all transactions whose    *)
(* date starts with the month, 0 when there is none, and their difference. *)
C17_MonthlyTotals ==
    IsStats(lastOp) =>
        LET total(type_) ==
                SumAmount({ t \in transactions :
                              /\ t.type = type_
                              /\ StartsWith(t.date, lastOp.date) })
        IN lastOp.rows = << total("INCOME"), total("EXPENSE"),
                            total("INCOME") - total("EXPENSE") >>

(* income and expense of different days of the month were both counted *)
C17_Witness ==
    /\ IsStats(lastOp)
    /\ lastOp.rows[1] > 0 /\ lastOp.rows[2] > 0
    /\ \E t, u \in transactions :
         /\ t.date # u.date
         /\ StartsWith(t.date, lastOp.date) /\ StartsWith(u.date, lastOp.date)

(***************************************************************************)
(* The calendar against which the statistics are judged: the months of     *)
(* four years in order.                                                    *)
(***************************************************************************)
IsTrend(op) == op.op = "get_balance_trend"

IsComparison(op) == op.op = "get_monthly_expense_comparison"

MonthLine ==
    [i \in 1..48 |->
        format_month([y |-> 2022 + ((i - 1) \div 12),
                      m |-> ((i - 1) % 12) + 1, d |-> 1])]

MonthIndex(month) == CHOOSE i \in DOMAIN MonthLine : MonthLine[i] = month

(* the n consecutive calendar months ending at month, oldest first *)
Window(month, n) == [i \in 1..n |-> MonthLine[MonthIndex(month) - n + i]]

PreviousMonth(month) == MonthLine[MonthIndex(month) - 1]

CurrentMonth(op) == Prefix(op.now, 7)

MonthTotal(type_, month) ==
    SumAmount({ t \in transactions :
                  t.type = type_ /\ StartsWith(t.date, month) })

MonthBalance(month) == MonthTotal("INCOME", month) - MonthTotal("EXPENSE", month)

(* C18: for every store and n >= 1, get_balance_trend(n) returns exactly n *)
(* entries, ascending, whose months are the n consecutive calendar months  *)
(* ending at the current month, each with the balance of its transactions  *)
(* (0 when it has none); no month outside that window appears.             *)
C18_TrendIsWindow ==
    (IsTrend(lastOp) /\ lastOp.months >= 1) =>
        /\ lastOp.ok
        /\ lastOp.rows =
               [i \in 1..lastOp.months |->
                   << Window(CurrentMonth(lastOp), lastOp.months)[i],
                      MonthBalance(Window(CurrentMonth(lastOp),
                                          lastOp.months)[i]) >>]

(* C19: on a store with no transactions, on every current date,            *)
(* get_balance_trend(6) returns 6 entries of balance 0 whose months are    *)
(* the 6 consecutive calendar months ending at the current month, in       *)
(* ascending order.                                                        *)
C19_EmptyStoreTrend ==
    (IsTrend(lastOp) /\ lastOp.months = 6 /\ transactions = {}) =>
        /\ lastOp.ok
        /\ lastOp.rows =
               [i \in 1..6 |-> << Window(CurrentMonth(lastOp), 6)[i], 0 >>]

(* the trend was read on an empty store in January: the window starts in *)
(* August of the year before                                             *)
C19_Witness ==
    /\ IsTrend(lastOp) /\ lastOp.months = 6 /\ transactions = {}
    /\ CurrentMonth(lastOp) = "2025-01"
    /\ Len(lastOp.rows) = 6
    /\ lastOp.rows[1] = <<"2024-08", 0>>
    /\ lastOp.rows[6] = <<"2025-01", 0>>

(* C20: on every current date the previous-month figure returned by        *)
(* get_monthly_expense_comparison is the expense total of the calendar     *)
(* month immediately before the current month; with expenses recorded in   *)
(* the current month only, the result is (that total, 0, 100.0).           *)
C20_PreviousCalendarMonth ==
    IsComparison(lastOp) =>
        /\ lastOp.rows[1] = MonthTotal("EXPENSE", CurrentMonth(lastOp))
        /\ lastOp.rows[2] =
               MonthTotal("EXPENSE", PreviousMonth(CurrentMonth(lastOp)))
        /\ ( /\ MonthTotal("EXPENSE", CurrentMonth(lastOp)) > 0
             /\ \A t \in transactions :
                    t.type = "EXPENSE" =>
                        StartsWith(t.date, CurrentMonth(lastOp)) )
           => lastOp.rows = << MonthTotal("EXPENSE", CurrentMonth(lastOp)),
                               0, <<100, 1>> >>

(* C21: the change rate returned by get_monthly_expense_comparison is      *)
(* (current - previous) / previous * 100 when the previous expense is not  *)
(* 0; when it is 0 the rate is 100 if the current expense is greater than  *)
(* 0 and 0 otherwise; nothing is ever divided by zero.                     *)
C21_ChangeRate ==
    IsComparison(lastOp) =>
        LET current == lastOp.rows[1]
            previous == lastOp.rows[2]
            rate == lastOp.rows[3]
        IN /\ rate[2] # 0
           /\ previous # 0 =>
                  rate[1] * previous = (current - previous) * 100 * rate[2]
           /\ (previous = 0 /\ current > 0) => rate[1] = 100 * rate[2]
           /\ (previous = 0 /\ current <= 0) => rate[1] = 0

(* a comparison divided by a previous expense that was not 0 and differed *)
(* from the current one                                                   *)
C21_Witness ==
    /\ IsComparison(lastOp)
    /\ lastOp.rows[2] # 0 /\ lastOp.rows[1] # lastOp.rows[2]
    /\ lastOp.rows[3][1] # 0

(* C22: after DBUtil initialisation on an empty database file the          *)
(* persisted categories table holds the default categories, 5 EXPENSE and  *)
(* 4 INCOME, with ids 1..9 in seeding order, for every later operation.    *)
C22_DefaultsPersisted ==
    /\ init_db_inserted \subseteq categories
    /\ Cardinality({ c \in categories :
                       c.category_id <= 9 /\ c.type = "EXPENSE" }) = 5
    /\ Cardinality({ c \in categories :
                       c.category_id <= 9 /\ c.type = "INCOME" }) = 4
    /\ \A c \in categories :
         c.category_id \in {1, 2} => c \in init_db_inserted /\ c.type = "EXPENSE"

(* C23: init_db is idempotent: run again on an initialised store it leaves *)
(* categories, transactions, budgets and settings unchanged, no default    *)
(* category is duplicated and settings keeps a single row.                 *)
C23_InitDbIdempotent ==
    [][ lastOp'.op = "init_db" =>
          /\ UNCHANGED <<categories, transactions, budgets, settings>>
          /\ \A i \in 1..Len(default_categories) :
               Cardinality({ c \in categories' :
                               c.name = default_categories[i][1] }) <= 1
          /\ Cardinality(settings') = 1 ]_vars

(* C24: every writing operation returns a success indicator: a caller that *)
(* tests the returned value for truth takes the success branch exactly     *)
(* when the operation committed.                                           *)
C24_TruthIsSuccess ==
    lastOp.op \in {"add_transaction", "delete_duplicate_transactions",
                   "add_custom_category", "set_monthly_budget",
                   "update_remind_setting"}
        => (success_branch(lastOp) <=> lastOp.ok)

ReadOps ==
    {"get_transactions_by_condition", "get_recent_transactions",
     "get_monthly_statistics", "get_monthly_budget_status",
     "get_balance_trend", "get_monthly_expense_comparison"}

(* C25: read operations never fail: in every store state that              *)
(* add_transaction can produce, whatever date text it stored, every read   *)
(* operation returns a result instead of raising.                          *)
C25_ReadsNeverRaise == lastOp.op \in ReadOps => lastOp.ok

(* C26: read operations never mutate state: each of the six reads leaves   *)
(* the categories, transactions, budgets and settings tables unchanged.    *)
C26_ReadsChangeNothing ==
    [][ lastOp'.op \in ReadOps =>
          UNCHANGED <<categories, transactions, budgets, settings, seq>> ]_vars

(* the recent transactions were read, with a row to return, from a store *)
(* that holds a category, transactions and a budget                      *)
C26_Witness ==
    /\ lastOp.op = "get_recent_transactions"
    /\ Len(lastOp.rows) >= 1
    /\ Cardinality(transactions) = 2 /\ budgets # {} /\ categories # {}

(* C28: connections are scoped per operation: when an operation returns or *)
(* raises it has closed every connection it opened, also the reads that    *)
(* call get_monthly_statistics while they hold their own connection.       *)
C28_NoConnectionLeftOpen == lastOp.unclosed = 0

(* C27: the rows returned by get_transactions_by_condition are ordered by  *)
(* date descending and, within one date, by creation descending: of two    *)
(* transactions of the same date the one entered later comes first.        *)
C27_LaterEnteredFirst ==
    IsQuery(lastOp) =>
        \A i, j \in 1..Len(lastOp.rows) :
            i < j =>
                \/ text_less(lastOp.rows[j].date, lastOp.rows[i].date)
                \/ /\ lastOp.rows[i].date = lastOp.rows[j].date
                   /\ lastOp.rows[i].transaction_id
                          > lastOp.rows[j].transaction_id

(* C29: in every state reached by add_transaction and set_monthly_budget   *)
(* calls alone, successful or failed, in any order, each budget row's      *)
(* cached spent equals the sum of the stored EXPENSE transactions of its   *)
(* category whose month (the first 7 characters of the date) is its month, *)
(* expenses recorded before the budget was created included.               *)
C29_AddAndSetAgree ==
    \A b \in budgets :
        b.spent = SumAmount({ t \in transactions :
                                /\ t.type = "EXPENSE"
                                /\ t.category_id = b.category_id
                                /\ Prefix(t.date, 7) = b.month })

(* an expense was added to a budget whose spent had been recomputed from *)
(* an expense recorded before the budget existed                         *)
C29_Witness ==
    /\ IsAdd(lastOp) /\ lastOp.ok /\ lastOp.budget_id # 0
    /\ lastOp.current_spent > 0
    /\ \E b \in budgets :
         /\ b.budget_id = lastOp.budget_id
         /\ b.spent = lastOp.current_spent + lastOp.amount
         /\ \E t \in transactions :
              /\ t.transaction_id = 1 /\ t.type = "EXPENSE"
              /\ t.category_id = b.category_id /\ Prefix(t.date, 7) = b.month
              /\ t.amount = lastOp.current_spent
    /\ seq.budgets = 1

(* C30: get_monthly_budget_status(month) returns exactly one row per       *)
(* budget row of that month whose category exists, and each row's spent is *)
(* the EXPENSE sum of that one category, also when two budgeted categories *)
(* have the same name and the same budgeted amount.                        *)
C30_OneRowPerBudget ==
    LET B == { b \in budgets : b.month = lastOp.date }
        name_of(b) ==
            (CHOOSE c \in categories : c.category_id = b.category_id).name
    IN ( /\ IsStatus(lastOp)
         /\ \A b \in B : \E c \in categories : c.category_id = b.category_id )
       => /\ Len(lastOp.rows) = Cardinality(B)
          /\ \A b \in B :
               \E i \in 1..Len(lastOp.rows) :
                   /\ lastOp.rows[i].name = name_of(b)
                   /\ lastOp.rows[i].amount = b.amount
                   /\ lastOp.rows[i].spent =
                          TrueSpent(transactions, b.category_id, b.month)

====
